---- MODULE Spec2Model ----
(***************************************************************************)
(* The bastion side of the Peasant protocol of candango/gopeasant: the     *)
(* in-memory nonce store (dummy/service.go), the request pipeline          *)
(* NoncedHandlerFunc (server.go), the middlewares Nonced and NonceServed,  *)
(* and the two route handlers of the test server (server_test.go).         *)
(*                                                                         *)
(* Every HTTP request runs on its own goroutine, and every GetNonce starts *)
(* one more goroutine that waits for its ticker.  A goroutine takes one    *)
(* step per access to the shared map; the code between two accesses is     *)
(* local and belongs to the step of the access before it.                  *)
(***************************************************************************)
EXTENDS Integers, Sequences, FiniteSets, TLC

\* ------------------------------------------------------------------ bounds
\* Requests served in one run.
MaxReq == 3
\* Streams of draws the random generator can deliver.
MaxSeed == 2
\* Milliseconds the clock advances in one step.
TickMs == 125
\* The clock stops advancing here.
MaxNow == 375
\* Requests the server works on at the same time.
MaxInFlight == 2
\* Calls the peasant makes on its transport in one run.
MaxCalls == 3
\* Calls of Block per exchange.
MaxBlocks == 1
\* Distance between the first draws of two streams of the generator.
SeedStride == 30

\* ------------------------------------------------------- program constants
NonceLen == 32
TTL == 250
StatusOK == 200
StatusForbidden == 403
StatusMethodNotAllowed == 405
StatusInternalServerError == 500
DenyThreshold == 300

\* ------------------------------------------------------------------ strings
\* Go strings are sequences of one-character strings.
asciiLower ==
  <<"a","b","c","d","e","f","g","h","i","j","k","l","m",
    "n","o","p","q","r","s","t","u","v","w","x","y","z">>
asciiUpper ==
  <<"A","B","C","D","E","F","G","H","I","J","K","L","M",
    "N","O","P","Q","R","S","T","U","V","W","X","Y","Z">>
digits == <<"0","1","2","3","4","5","6","7","9">>
\* A faulty variant of chars: one character outside the alphabet.
charsWithDash == asciiLower \o asciiUpper \o digits \o <<"-">>

chars == asciiLower \o asciiUpper \o digits

\* rand.Intn(n), i-th draw of the stream `seed`.
Intn(seed, i, n) == (seed + i) % n

\* randomString(s): s characters, each chars[rand.Intn(len(chars))].
randomString(s, seed) ==
  [i \in 1..s |-> chars[Intn(seed, i, Len(chars)) + 1]]

\* The streams the generator can deliver; together they draw every character.
Seeds == { k * SeedStride : k \in 0..(MaxSeed - 1) }

NonceValues == { randomString(NonceLen, seed) : seed \in Seeds }

\* Header.Get on a request without the header gives "".
NoNonce == <<>>

\* strings.Contains(s, sub)
Contains(s, sub) ==
  \E i \in 0..(Len(s) - Len(sub)) : SubSeq(s, i + 1, i + Len(sub)) = sub

NewNoncePath == <<"/","n","e","w","-","n","o","n","c","e">>
DoSomethingPath ==
  <<"/","d","o","-","n","o","n","c","e","d","-",
    "s","o","m","e","t","h","i","n","g">>
NewNonceWord == SubSeq(NewNoncePath, 2, Len(NewNoncePath))
FuncDone == "Func done with nonce "

Urls == {NewNoncePath, DoSomethingPath}
Methods == {"HEAD", "GET"}
ReqIds == 1..MaxInFlight

VARIABLES
  provider,   \* an HttpDirectoryProvider, with the history of the calls on it
  client,     \* the peasant's HttpTransport, with the history of its calls
  ctxKey,     \* the key given to NonceServed when the mux was built
  served,     \* the mux is wrapped by NonceServed (server_test.go:60)
  nonceMap,   \* DummyInMemoryNonceService.nonceMap: the keys present
  now,        \* the clock the tickers read, in ms
  tasks,      \* the expiry goroutines started by GetNonce, in start order
  pc,         \* where each request's goroutine stands
  request,    \* each request as received
  response,   \* each request's response writer
  started,    \* requests received so far
  crashed,    \* the runtime stopped the process on a concurrent map access
  cur,        \* history: per nonce value, its latest issuance
  obs         \* history: per request, what the pipeline did

vars == <<provider, client, ctxKey, served, nonceMap, now, tasks, pc, request, response, started,
          crashed, cur, obs>>

\* -------------------------------------------------------------- the writer
\* context.Background(): no key resolves.
EmptyContext == [k \in {} |-> ""]

\* pipeline names the NoncedHandlerFunc that handles the request.
NoRequest == [method |-> "", url |-> <<>>, nonce |-> NoNonce, ctx |-> EmptyContext,
              pipeline |-> ""]
\* status: the status line sent (0: none written yet); StatusCode: what the
\* WrappedWriter tracks (0: the writer is not wrapped).
NoResponse == [status |-> 0, StatusCode |-> 0, nonce |-> NoNonce, body |-> <<>>]

\* http.ResponseWriter.WriteHeader: the first status written is the one sent.
RawWriteHeader(w, c) ==
  [w EXCEPT !.status = IF @ = 0 THEN c ELSE @]

\* A faulty variant of WriteHeader: the tracked status is left alone.
WriteHeaderUntracked(w, c) == RawWriteHeader(w, c)

\* WrappedWriter.WriteHeader, and WriteHeader on a plain writer.
WriteHeader(w, c) ==
  IF w.StatusCode = 0
  THEN RawWriteHeader(w, c)
  ELSE [RawWriteHeader(w, c) EXCEPT !.StatusCode = c]

\* The status the client reads: 200 when the handler wrote none.
SentStatus(w) == IF w.status = 0 THEN StatusOK ELSE w.status

\* ------------------------------------------------------- the nonce service
\* DummyInMemoryNonceService.Skip
Skip(req) == Contains(req.url, NewNonceWord)

\* DummyInMemoryNonceService.Provided: the result and the writer after it.
Provided(w, req) ==
  IF req.nonce = NoNonce
  THEN [err |-> FALSE, resp |-> WriteHeader(w, StatusForbidden)]
  ELSE [err |-> FALSE, resp |-> w]

\* A faulty variant of Block: the request is rejected.
BlockRejects(w, req) == [err |-> FALSE, resp |-> WriteHeader(w, StatusForbidden)]

\* DummyInMemoryNonceService.Block
Block(w, req) == [err |-> FALSE, resp |-> w]

\* A faulty variant of IsNonced: every request is guarded.
IsNoncedAlways(req) == TRUE

\* InMemoryNonceService.IsNonced
IsNonced(req) == IF Contains(req.url, NewNonceWord) THEN FALSE ELSE TRUE

\* InMemoryNonceService.IsProvided: the result and the writer after it.
IsProvided(w, req) ==
  IF req.nonce = NoNonce
  THEN [err |-> FALSE, resp |-> WriteHeader(w, StatusForbidden)]
  ELSE [err |-> FALSE, resp |-> w]

\* Consume, up to its lookup: TRUE when it goes on to Clear.
ConsumeFinds(m, req) == req.nonce # NoNonce /\ req.nonce \in m

\* A faulty variant of ConsumeDenies: the denial is returned as an error.
ConsumeDeniesWithError(w) == [err |-> TRUE, resp |-> w]

\* Consume, when the header is empty or the lookup fails.
ConsumeDenies(w) == [err |-> FALSE, resp |-> WriteHeader(w, StatusForbidden)]

\* Consume, after Clear returned err.
ConsumeReturns(w, err) == [err |-> err, resp |-> w]

\* A faulty variant of ClearDeletes: the key stays in the map.
ClearDeletesNothing(m, nonce) == m

\* A faulty variant of ClearDeletes: the map is emptied.
ClearDeletesAll(m, nonce) == {}

\* Clear: the lookup, and the delete that follows a successful lookup.
ClearFinds(m, nonce) == nonce \in m
ClearDeletes(m, nonce) == m \ {nonce}

\* A faulty variant of Clear: a key that is absent is an error.
ClearStrict(m, nonce) ==
  [err |-> ~ClearFinds(m, nonce),
   m |-> IF ClearFinds(m, nonce) THEN ClearDeletes(m, nonce) ELSE m]

\* Clear as one call: the error it returns and the map it leaves.
Clear(m, nonce) ==
  [err |-> FALSE,
   m |-> IF ClearFinds(m, nonce) THEN ClearDeletes(m, nonce) ELSE m]

\* A faulty variant of GetNonceInserts: the minted value is not recorded.
GetNonceForgets(m, nonce) == m

\* GetNonce: the value minted and the map with it.
Minted(seed) == randomString(NonceLen, seed)
GetNonceInserts(m, nonce) == m \cup {nonce}

\* History of a goroutine's Clear: nothing met yet.
NoMet == [state |-> "", found |-> FALSE]

\* A faulty variant of NewExpiryTask: the ticker fires at once.
NewExpiryTaskNoTTL(nonce, t) ==
  [nonce |-> nonce, deadline |-> t, pc |-> "select", fired |-> 0, met |-> NoMet]

\* A faulty variant of NewExpiryTask: the goroutine never reads its ticker.
NewExpiryTaskStopped(nonce, t) ==
  [nonce |-> nonce, deadline |-> t + TTL, pc |-> "sendDone", fired |-> 0,
   met |-> NoMet]

\* GetNonce: the goroutine started for the value, waiting on its ticker.
\* fired counts its passes through case <-ticker.C; met is history.
NewExpiryTask(nonce, t) ==
  [nonce |-> nonce, deadline |-> t + TTL, pc |-> "select", fired |-> 0,
   met |-> NoMet]

\* ---------------------------------------------------- handlers of the mux
\* The URL without its query.
Path(url) ==
  IF \E i \in 1..Len(url) : url[i] = "?"
  THEN SubSeq(url, 1, (CHOOSE i \in 1..Len(url) :
                         url[i] = "?" /\ \A j \in 1..(i - 1) : url[j] # "?") - 1)
  ELSE url

\* http.ServeMux of NewNoncedFuncServeMux.
Route(req) ==
  IF Path(req.url) = NewNoncePath THEN "GetNonce" ELSE "DoNoncedFunc"

\* NoncedHandler.DoNoncedFunc
DoNoncedFunc(w, req) ==
  IF req.method # "GET"
  THEN WriteHeader(w, StatusMethodNotAllowed)
  ELSE [RawWriteHeader(w, StatusOK) EXCEPT !.body = <<FuncDone, req.nonce>>]

\* A faulty variant of GetNonceHandlerEntry: the method is not checked.
GetNonceHandlerAnyMethod(ctxService, req) ==
  IF ~ctxService THEN StatusInternalServerError ELSE 0

\* NoncedHandler.GetNonce up to its call of s.GetNonce: 0 when it makes the
\* call, otherwise the status it answers with.
GetNonceHandlerEntry(ctxService, req) ==
  IF ~ctxService THEN StatusInternalServerError
  ELSE IF req.method # "HEAD" THEN StatusMethodNotAllowed
  ELSE 0

\* The one service instance of the server.
TheService == "s"
\* The key under which the handler of /new-nonce looks the service up.
ServiceKey == "nonce-service"

\* A faulty variant of NonceServed: the key is used as given.
NonceServedVerbatim(s, key) == [k \in {key} |-> s]

\* NonceServed(s, key): the context the next handler's request carries.
NonceServed(s, key) ==
  [k \in {IF key = "" THEN "nonce-service" ELSE key} |-> s]

\* r.Context().Value(key).(NonceService): ok.
Resolves(ctx, key) == key \in DOMAIN ctx /\ ctx[key] = TheService

\* ------------------------------------------------------ the peasant's side
\* One ASCII letter in the other case.
ToUpper(c) ==
  IF \E i \in 1..Len(asciiLower) : asciiLower[i] = c
  THEN asciiUpper[CHOOSE i \in 1..Len(asciiLower) : asciiLower[i] = c]
  ELSE c
ToLower(c) ==
  IF \E i \in 1..Len(asciiUpper) : asciiUpper[i] = c
  THEN asciiLower[CHOOSE i \in 1..Len(asciiUpper) : asciiUpper[i] = c]
  ELSE c

\* textproto.CanonicalMIMEHeaderKey: the form under which http.Header keeps
\* and looks up a key.
CanonicalMIMEHeaderKey(k) ==
  [i \in 1..Len(k) |->
     IF i = 1 THEN ToUpper(k[i])
     ELSE IF k[i - 1] = "-" THEN ToUpper(k[i])
     ELSE ToLower(k[i])]

NoHeader == [k \in {} |-> <<>>]
\* Header.Add on a header without the key, and Header.Get.
HeaderAdd(h, key, v) ==
  [k \in DOMAIN h \cup {CanonicalMIMEHeaderKey(key)} |->
     IF k = CanonicalMIMEHeaderKey(key) THEN v ELSE h[k]]
HeaderGet(h, key) ==
  IF CanonicalMIMEHeaderKey(key) \in DOMAIN h
  THEN h[CanonicalMIMEHeaderKey(key)]
  ELSE <<>>

\* The key under which the bastion sends the nonce (server.go:59).
NonceHeaderKey == <<"n","o","n","c","e">>
\* The values of HttpTransport.NonceKey the peasant is configured with.
DefaultNonceKey == <<"N","o","n","c","e">>
BadNonceKey == <<"B","a","d","N","o","n","c","e","K","e","y">>
NonceKeys == {DefaultNonceKey, NonceHeaderKey, BadNonceKey}
DirectoryKeys == {"newNonce", "BadDirectoryKey"}
\* Methods http.NewRequest accepts, and one it refuses.
ValidMethods == {"HEAD", "GET"}
DirectoryMethods == ValidMethods \cup {"BAD METHOD"}

\* The URL of the bastion (server.URL), and the path of the nonce endpoint
\* behind the prefix /nonce.
BaseUrl == <<"h","t","t","p",":","/","/","b">>
BaseUrls == {BaseUrl, BaseUrl \o <<":","8","0">>}
NonceNewNoncePath == <<"/","n","o","n","c","e">> \o NewNoncePath

\* error values: nil, and messages.
NilErr == <<>>
KeyNotFound(key) ==
  <<"the transport wasn't able to find the nonce key ", key>>
NewRequestErr == <<"net/http: invalid method">>
DoErr == <<"http: round trip failed">>

\* MemoryDirectoryProvider{url}
MemoryDirectoryProvider(url) == [url |-> url]
GetUrl(p) == p.url

\* A faulty variant of Directory: the prefix /nonce is left out.
DirectoryNoPrefix(p) ==
  [dir |-> [k \in {"newNonce"} |-> GetUrl(p) \o NewNoncePath], err |-> NilErr]

\* MemoryDirectoryProvider.Directory
Directory(p) ==
  [dir |-> [k \in {"newNonce"} |-> GetUrl(p) \o <<"/","n","o","n","c","e">>
                                             \o <<"/","n","e","w","-","n","o","n","c","e">>],
   err |-> NilErr]

\* NewHttpTransport(p): the fields of the transport; SetTransport of the
\* memory provider returns nil.
NewHttpTransport(p) ==
  [DirectoryProvider |-> p,
   DirectoryKey |-> "newNonce",
   DirectoryMethod |-> "HEAD",
   NonceKey |-> DefaultNonceKey]

\* A faulty variant of NewNonceUrl: a missing key is no error.
NewNonceUrlLenient(ht) ==
  LET d == Directory(ht.DirectoryProvider)
  IN IF ht.DirectoryKey \in DOMAIN d.dir
     THEN [url |-> d.dir[ht.DirectoryKey], err |-> NilErr]
     ELSE [url |-> <<>>, err |-> NilErr]

\* HttpTransport.NewNonceUrl
NewNonceUrl(ht) ==
  LET d == Directory(ht.DirectoryProvider)
  IN IF d.err # NilErr THEN [url |-> <<>>, err |-> d.err]
     ELSE IF ht.DirectoryKey \notin DOMAIN d.dir
     THEN [url |-> <<>>, err |-> KeyNotFound(ht.DirectoryKey)]
     ELSE [url |-> d.dir[ht.DirectoryKey], err |-> NilErr]

\* HttpTransport.ResolveNonce
ResolveNonce(ht, res) == HeaderGet(res.Header, ht.NonceKey)

\* What Client.Do can come back with: an error, or a response.
StatusLine(c) ==
  CASE c = 101 -> "101 Switching Protocols"
    [] c = 200 -> "200 OK"
    [] c = 299 -> "299 "
    [] c = 300 -> "300 Multiple Choices"
    [] c = 405 -> "405 Method Not Allowed"
    [] OTHER -> ""
EndpointStatuses == {101, 200, 299, 300, 405}
NoAnswer == [err |-> TRUE, StatusCode |-> 0, Status |-> "", Header |-> NoHeader]
EndpointAnswers ==
  {NoAnswer} \cup
  {[err |-> FALSE, StatusCode |-> c, Status |-> StatusLine(c), Header |-> h] :
     c \in EndpointStatuses,
     h \in {NoHeader} \cup {HeaderAdd(NoHeader, NonceHeaderKey, v) : v \in NonceValues}}

\* No request issued.
NoCallRequest == [method |-> "", url |-> <<>>]

\* A faulty variant of NewNonce: a value is returned without a round trip.
NewNonceNoRoundTrip(ht, answer) ==
  [value |-> randomString(NonceLen, 0), err |-> NilErr, req |-> NoCallRequest]

\* HttpTransport.NewNonce, the endpoint answering `answer` if asked: the
\* value and error returned, and the request issued.
NewNonce(ht, answer) ==
  LET u == NewNonceUrl(ht)
      req == [method |-> ht.DirectoryMethod, url |-> u.url]
  IN IF u.err # NilErr
     THEN [value |-> <<>>, err |-> u.err, req |-> NoCallRequest]
     ELSE IF ht.DirectoryMethod \notin ValidMethods
     THEN [value |-> <<>>, err |-> NewRequestErr, req |-> NoCallRequest]
     ELSE IF answer.err
     THEN [value |-> <<>>, err |-> DoErr, req |-> req]
     ELSE IF answer.StatusCode > 299
     THEN [value |-> <<>>, err |-> <<answer.Status>>, req |-> req]
     ELSE [value |-> ResolveNonce(ht, answer), err |-> NilErr, req |-> req]

\* History of the peasant's calls: none yet.
NoCall == [op |-> "", value |-> <<>>, err |-> NilErr, req |-> NoCallRequest,
           answer |-> NoAnswer]

\* The peasant: its transport, and the history of the calls made on it.
NewClient(url) ==
  [ht |-> NewHttpTransport(MemoryDirectoryProvider(url)),
   calls |-> 0, dirCalls |-> 0, sent |-> 0, last |-> NoCall]

\* ------------------------------------------- the remote directory provider
\* Values of the interface Transport: a nil interface, pointers to
\* HttpTransport, and a value of another implementation.
NilTransport == [type |-> "nil", id |-> 0]
HttpTransportPtr(i) == [type |-> "*HttpTransport", id |-> i]
OtherTransport == [type |-> "*otherTransport", id |-> 0]
Transports ==
  {NilTransport, OtherTransport} \cup {HttpTransportPtr(i) : i \in 1..(MaxCalls + 1)}

CastErr == <<"was not able to cast Transport to HttpTransport">>
RefusedErr == <<"transport refused">>
GetErr == <<"Get: connection refused">>
UnmarshalErr == <<"json: cannot unmarshal">>

\* NewHttpDirectoryProvider(url): no transport yet.
NewHttpDirectoryProvider(url) == [Url |-> url, HttpTransport |-> NilTransport]

\* MemoryDirectoryProvider.SetTransport: the provider after it, and the error.
SetTransportMemory(p, t) == [p |-> p, err |-> NilErr]

\* A faulty variant of SetTransportHttp: any Transport is accepted.
SetTransportHttpAny(p, t) ==
  [p |-> [p EXCEPT !.HttpTransport = t], err |-> NilErr]

\* HttpDirectoryProvider.SetTransport: the two-value type assertion assigns
\* the field, nil when the assertion fails, before ok is tested.
SetTransportHttp(p, t) ==
  LET ok == t.type = "*HttpTransport"
  IN [p |-> [p EXCEPT !.HttpTransport = IF ok THEN t ELSE NilTransport],
      err |-> IF ok THEN NilErr ELSE CastErr]

\* SetTransport of a DirectoryProvider that refuses the transport: the
\* interface lets an implementation return an error.
SetTransportRefusing(p, t) == [p |-> p, err |-> RefusedErr]

ProviderKinds == {"memory", "http", "refusing"}

\* p.SetTransport(t), dispatched on the provider's type.
SetTransport(kind, p, t) ==
  CASE kind = "memory" -> SetTransportMemory(p, t)
    [] kind = "http" -> SetTransportHttp(p, t)
    [] OTHER -> SetTransportRefusing(p, t)

\* NewHttpTransport(p) as a call: the transport returned (nil with an
\* error), the error, and the provider after SetTransport; i names the new
\* transport.
NewHttpTransportCall(kind, p, i) ==
  LET ht == HttpTransportPtr(i)
      s == SetTransport(kind, p, ht)
  IN IF s.err # NilErr
     THEN [ht |-> NilTransport, err |-> s.err, p |-> s.p]
     ELSE [ht |-> ht, err |-> NilErr, p |-> s.p]

\* JSON values as json.Unmarshal stores them in a map[string]any.
JsonString(s) == [type |-> "string", str |-> s]
JsonNumber == [type |-> "float64", str |-> <<>>]
JsonNull == [type |-> "nil", str |-> <<>>]
NoDirectory == [k \in {} |-> JsonNull]

\* What the directory URL can answer: the body, by the JSON document it holds.
RemoteBodies ==
  {[kind |-> "invalid", members |-> NoDirectory],
   [kind |-> "array", members |-> NoDirectory],
   [kind |-> "null", members |-> NoDirectory],
   [kind |-> "object", members |-> NoDirectory]}
  \cup {[kind |-> "object", members |-> [k \in {"newNonce"} |-> v]] :
          v \in {JsonString(BaseUrl \o NonceNewNoncePath), JsonNumber, JsonNull}}
RemoteAnswers ==
  {[err |-> e, body |-> b] : e \in BOOLEAN, b \in RemoteBodies}

\* BodyAsJson(r, &dir) with dir an empty map: the map after it, and the error.
BodyAsJson(body) ==
  CASE body.kind = "object" -> [dir |-> body.members, err |-> NilErr]
    [] body.kind = "null" -> [dir |-> NoDirectory, err |-> NilErr]
    [] OTHER -> [dir |-> NoDirectory, err |-> UnmarshalErr]

\* HttpDirectoryProvider.Directory, the URL answering `answer`: reading the
\* Client of a nil *HttpTransport panics.
HttpDirectory(p, answer) ==
  IF p.HttpTransport = NilTransport
  THEN [dir |-> NoDirectory, err |-> NilErr, panic |-> TRUE]
  ELSE IF answer.err
  THEN [dir |-> NoDirectory, err |-> GetErr, panic |-> FALSE]
  ELSE [dir |-> BodyAsJson(answer.body).dir, err |-> BodyAsJson(answer.body).err,
        panic |-> FALSE]

\* HttpTransport.NewNonceUrl after ht.Directory() returned d: val.(string)
\* panics when the value is not a string.
NewNonceUrlOver(d, key) ==
  IF d.panic THEN [url |-> <<>>, err |-> NilErr, panic |-> TRUE]
  ELSE IF d.err # NilErr THEN [url |-> <<>>, err |-> d.err, panic |-> FALSE]
  ELSE IF key \notin DOMAIN d.dir
  THEN [url |-> <<>>, err |-> KeyNotFound(key), panic |-> FALSE]
  ELSE IF d.dir[key].type # "string"
  THEN [url |-> <<>>, err |-> NilErr, panic |-> TRUE]
  ELSE [url |-> d.dir[key].str, err |-> NilErr, panic |-> FALSE]

\* History of the calls on the provider: none yet.
NoProviderCall ==
  [op |-> "", kind |-> "", arg |-> NilTransport, ht |-> NilTransport,
   url |-> <<>>, err |-> NilErr, panic |-> FALSE]

\* The provider, and the history of the calls made with it.
NewProvider(url) ==
  [http |-> NewHttpDirectoryProvider(url), calls |-> 0, last |-> NoProviderCall]

\* --------------------------------------------------------------- histories
NoSaw == [state |-> "", epoch |-> 0, early |-> FALSE, late |-> FALSE,
          found |-> FALSE]
NoObs == [stages |-> <<>>, invoked |-> 0, terminal |-> "",
          issued |-> NoNonce, saw |-> NoSaw, blocks |-> 0]
Stage(name, res) == [name |-> name, err |-> res.err, status |-> res.resp.StatusCode]
NeverIssued == [state |-> "never", epoch |-> 0, deadline |-> 0, over |-> FALSE]

\* The server after NewDummyInMemoryNonceService, no request received.
InitServer ==
  /\ nonceMap = {}
  /\ now = 0
  /\ tasks = <<>>
  /\ pc = [r \in ReqIds |-> "idle"]
  /\ request = [r \in ReqIds |-> NoRequest]
  /\ response = [r \in ReqIds |-> NoResponse]
  /\ started = 0
  /\ crashed = FALSE
  /\ cur = [v \in NonceValues |-> NeverIssued]
  /\ obs = [r \in ReqIds |-> NoObs]

Init ==
  /\ served \in BOOLEAN
  /\ ctxKey = ""
  /\ client = NewClient(BaseUrl)
  /\ provider = NewProvider(BaseUrl)
  /\ InitServer

\* ------------------------------------------------- the pipeline, by stages
Finish(r, w, o) ==
  /\ pc' = [pc EXCEPT ![r] = "done"]
  /\ response' = [response EXCEPT ![r] = w]
  /\ obs' = [obs EXCEPT ![r] = o]

Goto(r, label, w, o) ==
  /\ pc' = [pc EXCEPT ![r] = label]
  /\ response' = [response EXCEPT ![r] = w]
  /\ obs' = [obs EXCEPT ![r] = o]

\* Faulty variants of Denied: no status stops the pipeline; only a server error does.
DeniedNever(w) == FALSE
DeniedOnServerErrorOnly(w) == w.StatusCode >= StatusInternalServerError

\* The threshold test of NoncedHandlerFunc.
Denied(w) == w.StatusCode >= DenyThreshold

\* NoncedHandlerFunc after Provided returned p.
AfterProvided(r, p) ==
  LET o == [NoObs EXCEPT !.stages =
              <<[name |-> "Skip", err |-> FALSE, status |-> 0], Stage("Provided", p)>>]
  IN IF p.err
     THEN Finish(r, WriteHeader(p.resp, StatusInternalServerError),
                 [o EXCEPT !.terminal = "ServerError"])
     ELSE IF Denied(p.resp)
     THEN Finish(r, p.resp, [o EXCEPT !.terminal = "Denied"])
     ELSE Goto(r, "Consume", p.resp, o)

\* A faulty variant of Exempt: the exempt request goes through the guarded stages.
ExemptThroughPipeline(r, req) ==
  AfterProvided(r, Provided([NoResponse EXCEPT !.StatusCode = StatusOK], req))

\* NoncedHandlerFunc, the exempt branch: f(w, r) on the plain writer.
Exempt(r, req) ==
  LET o == [NoObs EXCEPT !.stages = <<[name |-> "Skip", err |-> FALSE, status |-> 0]>>,
                          !.invoked = @ + 1,
                          !.terminal = "ExemptInvoke"]
      entry == GetNonceHandlerEntry(Resolves(req.ctx, ServiceKey), req)
  IN IF Route(req) = "GetNonce"
     THEN IF entry = 0
          THEN Goto(r, "HandlerGetNonce", NoResponse, o)
          ELSE Finish(r, WriteHeader(NoResponse, entry), o)
     ELSE Finish(r, DoNoncedFunc(NoResponse, req), o)

\* NoncedHandlerFunc after Consume returned c; o is the history so far.
AfterConsume(r, c, o0) ==
  LET o == [o0 EXCEPT !.stages = Append(@, Stage("Consume", c))]
  IN IF c.err
     THEN Finish(r, WriteHeader(c.resp, StatusInternalServerError),
                 [o EXCEPT !.terminal = "ServerError"])
     ELSE IF Denied(c.resp)
     THEN Finish(r, c.resp, [o EXCEPT !.terminal = "Denied"])
     ELSE Goto(r, "GetNonce", c.resp, o)

\* NoncedHandlerFunc after GetNonce returned g: the header, then f(wrapped, r).
AfterGetNonce(r, g) ==
  LET o == [obs[r] EXCEPT !.stages = Append(@, Stage("GetNonce", g)),
                          !.issued = g.nonce]
      w == [g.resp EXCEPT !.nonce = g.nonce]
  IN IF g.err
     THEN Finish(r, WriteHeader(g.resp, StatusInternalServerError),
                 [o EXCEPT !.terminal = "ServerError"])
     ELSE IF Denied(g.resp)
     THEN Finish(r, g.resp, [o EXCEPT !.terminal = "Denied"])
     ELSE Finish(r, DoNoncedFunc(w, request[r]),
                 [o EXCEPT !.invoked = @ + 1, !.terminal = "ActionInvoke"])

\* ------------------------------------------------------------ the requests
\* A request is taken by the lowest goroutine slot that is free; a slot whose
\* exchange is over is free again.
Free(r) == pc[r] \in {"idle", "done"}

CanStart(r) ==
  /\ ~crashed
  /\ started < MaxReq
  /\ Free(r)
  /\ \A q \in 1..(r - 1) : ~Free(q)

Wrapped == [NoResponse EXCEPT !.StatusCode = StatusOK]

\* The context of a request when it reaches the mux.
Context == IF served THEN NonceServed(TheService, ctxKey) ELSE EmptyContext

\* NoncedHandlerFunc receives req and runs up to its first map access:
\* Skip, then f on the exempt branch, or Provided on the guarded one.
Receive(r, req) ==
  /\ started' = started + 1
  /\ request' = [request EXCEPT ![r] = req]
  /\ IF Skip(req)
     THEN Exempt(r, req)
     ELSE AfterProvided(r, Provided(Wrapped, req))

\* A request arrives at the server.
Serve(r) ==
  /\ CanStart(r)
  /\ \E m \in Methods, u \in Urls, n \in NonceValues \cup {NoNonce} :
       Receive(r, [method |-> m, url |-> u, nonce |-> n, ctx |-> Context,
                   pipeline |-> "Skip"])
  /\ UNCHANGED <<provider, client, ctxKey, served, nonceMap, now, tasks, crashed, cur>>

\* What a lookup of v by Consume meets.
Saw(v) ==
  [state |-> cur[v].state, epoch |-> cur[v].epoch,
   early |-> cur[v].state # "never" /\ now < cur[v].deadline,
   late |-> cur[v].state # "never" /\ now > cur[v].deadline,
   found |-> v \in nonceMap]

\* Consume: the header and the lookup.
ConsumeLookup(r) ==
  LET req == request[r]
      v == req.nonce
      o == IF v = NoNonce THEN obs[r] ELSE [obs[r] EXCEPT !.saw = Saw(v)]
  IN /\ ~crashed
     /\ pc[r] = "Consume"
     /\ IF ConsumeFinds(nonceMap, req)
        THEN /\ Goto(r, "ClearLookup", response[r], o)
             /\ cur' = [cur EXCEPT ![v].state = "used"]
        ELSE /\ AfterConsume(r, ConsumeDenies(response[r]), o)
             /\ cur' = cur
     /\ UNCHANGED <<provider, client, ctxKey, served, nonceMap, now, tasks, request, started, crashed>>

\* Clear, called by Consume: the lookup.
ClearLookup(r) ==
  /\ ~crashed
  /\ pc[r] = "ClearLookup"
  /\ IF ClearFinds(nonceMap, request[r].nonce)
     THEN Goto(r, "ClearDelete", response[r], obs[r])
     ELSE AfterConsume(r, ConsumeReturns(response[r],
                                         Clear(nonceMap, request[r].nonce).err),
                       obs[r])
  /\ UNCHANGED <<provider, client, ctxKey, served, nonceMap, now, tasks, request, started, crashed, cur>>

\* Clear, called by Consume: the delete; Consume returns nil.
ClearDelete(r) ==
  /\ ~crashed
  /\ pc[r] = "ClearDelete"
  /\ nonceMap' = ClearDeletes(nonceMap, request[r].nonce)
  /\ AfterConsume(r, ConsumeReturns(response[r],
                                    Clear(nonceMap, request[r].nonce).err),
                  obs[r])
  /\ UNCHANGED <<provider, client, ctxKey, served, now, tasks, request, started, crashed, cur>>

\* GetNonce's effect on the store, the goroutines and the history.
Issue(nonce) ==
  /\ nonceMap' = GetNonceInserts(nonceMap, nonce)
  /\ tasks' = Append(tasks, NewExpiryTask(nonce, now))
  /\ cur' = [cur EXCEPT ![nonce] =
               [state |-> "fresh", epoch |-> @.epoch + 1, deadline |-> now + TTL,
                over |-> nonce \in nonceMap]]

\* GetNonce called by NoncedHandlerFunc, then the header and f(wrapped, r).
GetNonce(r) ==
  /\ ~crashed
  /\ pc[r] = "GetNonce"
  /\ \E seed \in Seeds :
       /\ Issue(Minted(seed))
       /\ AfterGetNonce(r, [err |-> FALSE, nonce |-> Minted(seed), resp |-> response[r]])
  /\ UNCHANGED <<provider, client, ctxKey, served, now, request, started, crashed>>

\* GetNonce called by the handler of /new-nonce, then its header.
HandlerGetNonce(r) ==
  /\ ~crashed
  /\ pc[r] = "HandlerGetNonce"
  /\ \E seed \in Seeds :
       /\ Issue(Minted(seed))
       /\ Finish(r, [response[r] EXCEPT !.nonce = Minted(seed)],
                 [obs[r] EXCEPT !.issued = Minted(seed)])
  /\ UNCHANGED <<provider, client, ctxKey, served, now, request, started, crashed>>

\* ------------------------------------------------------ the expiry tasks
TaskIds == 1..Len(tasks)

\* The issuance of its value that started goroutine t.
TaskEpoch(t) ==
  Cardinality({u \in 1..t : tasks[u].nonce = tasks[t].nonce})

\* History: what the Clear of goroutine t meets.
Met(t) ==
  LET v == tasks[t].nonce
  IN [state |-> IF cur[v].epoch = TaskEpoch(t) THEN cur[v].state ELSE "later",
      found |-> v \in nonceMap]

\* History: goroutine t takes the value out of the reach of Consume.
Expire(t) ==
  LET v == tasks[t].nonce
  IN IF cur[v].state # "fresh" THEN cur
     ELSE IF cur[v].epoch = TaskEpoch(t)
     THEN [cur EXCEPT ![v].state = "expired"]
     ELSE [cur EXCEPT ![v].state = "swept"]

\* case <-ticker.C, then Clear: the lookup.
ExpiryClearLookup(t) ==
  LET v == tasks[t].nonce
  IN /\ ~crashed
     /\ tasks[t].pc = "select"
     /\ now >= tasks[t].deadline
     /\ tasks' = [tasks EXCEPT
                    ![t].pc = IF ClearFinds(nonceMap, v) THEN "ClearDelete"
                                                         ELSE "sendDone",
                    ![t].fired = @ + 1,
                    ![t].met = Met(t)]
     /\ cur' = IF ClearFinds(nonceMap, v) THEN Expire(t) ELSE cur
     /\ UNCHANGED <<provider, client, ctxKey, served, nonceMap, now, pc, request, response, started, crashed, obs>>

\* Clear: the delete; the goroutine then blocks in done <- true, which
\* nothing receives.
ExpiryClearDelete(t) ==
  /\ ~crashed
  /\ tasks[t].pc = "ClearDelete"
  /\ nonceMap' = ClearDeletes(nonceMap, tasks[t].nonce)
  /\ tasks' = [tasks EXCEPT ![t].pc = "sendDone"]
  /\ cur' = Expire(t)
  /\ UNCHANGED <<provider, client, ctxKey, served, now, pc, request, response, started, crashed, obs>>

\* Time passes while some ticker has yet to fire; nothing else reads the clock.
Tick ==
  /\ ~crashed
  /\ now < MaxNow
  /\ \E t \in TaskIds : tasks[t].pc = "select" /\ tasks[t].deadline > now
  /\ now' = now + TickMs
  /\ UNCHANGED <<provider, client, ctxKey, served, nonceMap, tasks, pc, request, response, started, crashed, cur, obs>>

\* ------------------------------------------------- the unguarded map
\* The map access a goroutine is about to make.
RequestAccess(r) ==
  CASE pc[r] \in {"Consume", "ClearLookup"} -> "read"
    [] pc[r] \in {"ClearDelete", "GetNonce", "HandlerGetNonce"} -> "write"
    [] OTHER -> "none"

TaskAccess(t) ==
  CASE tasks[t].pc = "select" /\ now >= tasks[t].deadline -> "read"
    [] tasks[t].pc = "ClearDelete" -> "write"
    [] OTHER -> "none"

Accesses ==
  [g \in ({"r"} \X ReqIds) \cup ({"t"} \X TaskIds) |->
     IF g[1] = "r" THEN RequestAccess(g[2]) ELSE TaskAccess(g[2])]

\* Two goroutines are about to access the map, one of them writing: nothing
\* orders the two accesses.
MapRace ==
  \E g, h \in DOMAIN Accesses :
    g # h /\ Accesses[g] = "write" /\ Accesses[h] # "none"

\* The runtime finds the map written while another goroutine uses it and
\* stops the process (fatal error: concurrent map writes / read and write):
\* the store, the goroutines and the exchanges in flight are gone.
FatalConcurrentMap ==
  /\ ~crashed
  /\ MapRace
  /\ crashed' = TRUE
  /\ nonceMap' = {}
  /\ tasks' = <<>>
  /\ pc' = [r \in ReqIds |-> "exit"]
  /\ request' = [r \in ReqIds |-> NoRequest]
  /\ response' = [r \in ReqIds |-> NoResponse]
  /\ cur' = [v \in NonceValues |-> NeverIssued]
  /\ obs' = [r \in ReqIds |-> NoObs]
  /\ UNCHANGED <<provider, client, ctxKey, served, now, started>>

Next ==
  \/ \E r \in ReqIds : Serve(r)
  \/ \E r \in ReqIds : ConsumeLookup(r)
  \/ \E r \in ReqIds : ClearLookup(r)
  \/ \E r \in ReqIds : ClearDelete(r)
  \/ \E r \in ReqIds : GetNonce(r)
  \/ \E r \in ReqIds : HandlerGetNonce(r)
  \/ \E t \in TaskIds : ExpiryClearLookup(t)
  \/ \E t \in TaskIds : ExpiryClearDelete(t)
  \/ Tick
  \/ FatalConcurrentMap

Spec == Init /\ [][Next]_vars

\* ------------------------------------- requests served one after another
NoneInFlight == \A q \in ReqIds : Free(q)

ServeSeq(r) == NoneInFlight /\ Serve(r)

NextSeq ==
  \/ \E r \in ReqIds : ServeSeq(r)
  \/ \E r \in ReqIds : ConsumeLookup(r)
  \/ \E r \in ReqIds : ClearLookup(r)
  \/ \E r \in ReqIds : ClearDelete(r)
  \/ \E r \in ReqIds : GetNonce(r)
  \/ \E r \in ReqIds : HandlerGetNonce(r)
  \/ \E t \in TaskIds : ExpiryClearLookup(t)
  \/ \E t \in TaskIds : ExpiryClearDelete(t)
  \/ Tick
  \/ FatalConcurrentMap

SeqSpec == Init /\ [][NextSeq]_vars

\* ------------------------- the clock and the goroutines keep running
\* Time passes for as long as some ticker has yet to fire: every request
\* issues at most one value, so no deadline lies beyond MaxReq * TTL.
Elapse ==
  /\ ~crashed
  /\ now < MaxReq * TTL
  /\ \E t \in TaskIds : tasks[t].pc = "select" /\ tasks[t].deadline > now
  /\ now' = now + TickMs
  /\ UNCHANGED <<provider, client, ctxKey, served, nonceMap, tasks, pc, request, response, started, crashed, cur, obs>>

NextLive ==
  \/ \E r \in ReqIds : ServeSeq(r)
  \/ \E r \in ReqIds : ConsumeLookup(r)
  \/ \E r \in ReqIds : ClearLookup(r)
  \/ \E r \in ReqIds : ClearDelete(r)
  \/ \E r \in ReqIds : GetNonce(r)
  \/ \E r \in ReqIds : HandlerGetNonce(r)
  \/ \E t \in TaskIds : ExpiryClearLookup(t)
  \/ \E t \in TaskIds : ExpiryClearDelete(t)
  \/ Elapse
  \/ FatalConcurrentMap

\* The clock advances, and the scheduler runs a goroutine whose ticker has
\* fired; requests may be delayed for ever.
ExpiryFairness ==
  /\ WF_vars(Elapse)
  /\ WF_vars(\E t \in TaskIds : ExpiryClearLookup(t))
  /\ WF_vars(\E t \in TaskIds : ExpiryClearDelete(t))

LiveSpec == Init /\ [][NextLive]_vars /\ ExpiryFairness

\* ------------------------------- a NonceService whose operations can fail
\* The interface lets every operation return an error; the dummy service
\* never does.  Here Provided, Clear (and with it Consume) and GetNonce may
\* return one, leaving the store as it is.
ServeProvidedErr(r) ==
  /\ CanStart(r)
  /\ \E m \in Methods, u \in Urls, n \in NonceValues \cup {NoNonce} :
       LET req == [method |-> m, url |-> u, nonce |-> n, ctx |-> Context,
                   pipeline |-> "Skip"]
       IN /\ ~Skip(req)
          /\ request' = [request EXCEPT ![r] = req]
          /\ started' = started + 1
          /\ AfterProvided(r, [err |-> TRUE, resp |-> Wrapped])
  /\ UNCHANGED <<provider, client, ctxKey, served, nonceMap, now, tasks, crashed, cur>>

ClearErr(r) ==
  /\ ~crashed
  /\ pc[r] = "ClearLookup"
  /\ AfterConsume(r, ConsumeReturns(response[r], TRUE), obs[r])
  /\ UNCHANGED <<provider, client, ctxKey, served, nonceMap, now, tasks, request, started, crashed, cur>>

GetNonceErr(r) ==
  /\ ~crashed
  /\ pc[r] = "GetNonce"
  /\ AfterGetNonce(r, [err |-> TRUE, nonce |-> NoNonce, resp |-> response[r]])
  /\ UNCHANGED <<provider, client, ctxKey, served, nonceMap, now, tasks, request, started, crashed, cur>>

HandlerGetNonceErr(r) ==
  /\ ~crashed
  /\ pc[r] = "HandlerGetNonce"
  /\ Finish(r, WriteHeader(response[r], StatusInternalServerError), obs[r])
  /\ UNCHANGED <<provider, client, ctxKey, served, nonceMap, now, tasks, request, started, crashed, cur>>

NextFault ==
  \/ \E r \in ReqIds : Serve(r)
  \/ \E r \in ReqIds : ServeProvidedErr(r)
  \/ \E r \in ReqIds : ConsumeLookup(r)
  \/ \E r \in ReqIds : ClearLookup(r)
  \/ \E r \in ReqIds : ClearErr(r)
  \/ \E r \in ReqIds : ClearDelete(r)
  \/ \E r \in ReqIds : GetNonce(r)
  \/ \E r \in ReqIds : GetNonceErr(r)
  \/ \E r \in ReqIds : HandlerGetNonce(r)
  \/ \E r \in ReqIds : HandlerGetNonceErr(r)
  \/ \E t \in TaskIds : ExpiryClearLookup(t)
  \/ \E t \in TaskIds : ExpiryClearDelete(t)
  \/ Tick
  \/ FatalConcurrentMap

FaultSpec == Init /\ [][NextFault]_vars

\* ------------------------------------------------------ the peasant calls
serverVars == <<ctxKey, served, nonceMap, now, tasks, pc, request, response,
                started, crashed, cur, obs>>

\* The caller changes a field of the transport (client_test.go:95, 112).
SetDirectoryKey ==
  /\ \E k \in DirectoryKeys \ {client.ht.DirectoryKey} :
       client' = [client EXCEPT !.ht.DirectoryKey = k]
  /\ UNCHANGED <<provider, serverVars>>

SetNonceKey ==
  /\ \E k \in NonceKeys \ {client.ht.NonceKey} :
       client' = [client EXCEPT !.ht.NonceKey = k]
  /\ UNCHANGED <<provider, serverVars>>

SetDirectoryMethod ==
  /\ \E m \in DirectoryMethods \ {client.ht.DirectoryMethod} :
       client' = [client EXCEPT !.ht.DirectoryMethod = m]
  /\ UNCHANGED <<provider, serverVars>>

\* ht.NewNonceUrl()
CallNewNonceUrl ==
  /\ client.calls < MaxCalls
  /\ LET u == NewNonceUrl(client.ht)
     IN client' = [client EXCEPT
                     !.calls = @ + 1,
                     !.dirCalls = @ + 1,
                     !.last = [NoCall EXCEPT !.op = "NewNonceUrl",
                                             !.value = u.url, !.err = u.err]]
  /\ UNCHANGED <<provider, serverVars>>

\* ht.NewNonce(), the endpoint answering as it chooses.
CallNewNonce ==
  /\ client.calls < MaxCalls
  /\ \E answer \in EndpointAnswers :
       LET n == NewNonce(client.ht, answer)
       IN client' = [client EXCEPT
                       !.calls = @ + 1,
                       !.dirCalls = @ + 1,
                       !.sent = IF n.req = NoCallRequest THEN @ ELSE @ + 1,
                       !.last = [op |-> "NewNonce", value |-> n.value,
                                 err |-> n.err, req |-> n.req,
                                 answer |-> IF n.req = NoCallRequest
                                            THEN NoAnswer ELSE answer]]
  /\ UNCHANGED <<provider, serverVars>>

InitClient ==
  /\ served = TRUE
  /\ ctxKey = ""
  /\ client \in {NewClient(b) : b \in BaseUrls}
  /\ provider = NewProvider(BaseUrl)
  /\ InitServer

NextClient ==
  \/ SetDirectoryKey
  \/ SetNonceKey
  \/ SetDirectoryMethod
  \/ CallNewNonceUrl
  \/ CallNewNonce

ClientSpec == InitClient /\ [][NextClient]_vars

\* ------------------------------------------- calls on the remote provider
\* p.SetTransport(t) on the HttpDirectoryProvider.
CallSetTransport ==
  /\ provider.calls < MaxCalls
  /\ \E t \in Transports :
       LET s == SetTransportHttp(provider.http, t)
       IN provider' = [http |-> s.p, calls |-> provider.calls + 1,
                       last |-> [NoProviderCall EXCEPT !.op = "SetTransport",
                                                       !.kind = "http",
                                                       !.arg = t, !.err = s.err]]
  /\ UNCHANGED <<client, serverVars>>

\* NewHttpTransport(p), p a provider of one of the three kinds.
CallNewHttpTransport ==
  /\ provider.calls < MaxCalls
  /\ \E kind \in ProviderKinds :
       LET n == NewHttpTransportCall(kind, provider.http, provider.calls + 1)
       IN provider' = [http |-> IF kind = "http" THEN n.p ELSE provider.http,
                       calls |-> provider.calls + 1,
                       last |-> [NoProviderCall EXCEPT
                                   !.op = "NewHttpTransport", !.kind = kind,
                                   !.arg = HttpTransportPtr(provider.calls + 1),
                                   !.ht = n.ht, !.err = n.err]]
  /\ UNCHANGED <<client, serverVars>>

\* NewNonceUrl() on a transport whose provider is the HttpDirectoryProvider.
CallNewNonceUrlRemote ==
  /\ provider.calls < MaxCalls
  /\ \E key \in DirectoryKeys, answer \in RemoteAnswers :
       LET u == NewNonceUrlOver(HttpDirectory(provider.http, answer), key)
       IN provider' = [provider EXCEPT
                         !.calls = @ + 1,
                         !.last = [NoProviderCall EXCEPT
                                     !.op = "NewNonceUrl", !.kind = "http",
                                     !.url = u.url, !.err = u.err,
                                     !.panic = u.panic]]
  /\ UNCHANGED <<client, serverVars>>

InitProvider ==
  /\ served = TRUE
  /\ ctxKey = ""
  /\ client = NewClient(BaseUrl)
  /\ provider \in {NewProvider(b) : b \in BaseUrls}
  /\ InitServer

NextProvider ==
  \/ CallSetTransport
  \/ CallNewHttpTransport
  \/ CallNewNonceUrlRemote

ProviderSpec == InitProvider /\ [][NextProvider]_vars

\* ------------------------- any URL, any context key, either pipeline
\* The guarded path with a query that holds the word new-nonce.
QueryNewNonce == DoSomethingPath \o <<"?">> \o NewNonceWord
WideUrls == Urls \cup {QueryNewNonce}
\* The keys NonceServed may be given.
ContextKeys == {"", "nonce-service", "my-service"}
\* NoncedHandlerFunc written against Skip/Provided, against IsNonced/IsProvided.
Pipelines == {"Skip", "IsNonced"}

\* The requests that can reach the mux.
Requests ==
  [method : Methods, url : WideUrls, nonce : NonceValues \cup {NoNonce},
   ctx : {Context}, pipeline : Pipelines]

\* NoncedHandlerFunc written against IsNonced/IsProvided receives req and
\* runs up to its first map access.
ReceiveIsNonced(r, req) ==
  /\ started' = started + 1
  /\ request' = [request EXCEPT ![r] = req]
  /\ IF ~IsNonced(req)
     THEN Exempt(r, req)
     ELSE AfterProvided(r, IsProvided(Wrapped, req))

\* A request arrives at the mux built on the Skip/Provided pipeline.
ServeWide(r) ==
  /\ NoneInFlight
  /\ CanStart(r)
  /\ \E req \in Requests : req.pipeline = "Skip" /\ Receive(r, req)
  /\ UNCHANGED <<provider, client, ctxKey, served, nonceMap, now, tasks, crashed, cur>>

\* A request arrives at the mux built on the IsNonced/IsProvided pipeline.
ServeIsNonced(r) ==
  /\ NoneInFlight
  /\ CanStart(r)
  /\ \E req \in Requests : req.pipeline = "IsNonced" /\ ReceiveIsNonced(r, req)
  /\ UNCHANGED <<provider, client, ctxKey, served, nonceMap, now, tasks, crashed, cur>>

\* s.Block(w, r) is called for an exchange that was handled.
CallBlock(r) ==
  /\ ~crashed
  /\ pc[r] = "done"
  /\ obs[r].blocks < MaxBlocks
  /\ response' = [response EXCEPT ![r] = Block(response[r], request[r]).resp]
  /\ obs' = [obs EXCEPT ![r].blocks = @ + 1]
  /\ UNCHANGED <<provider, client, ctxKey, served, nonceMap, now, tasks, pc, request, started, crashed, cur>>

InitExt ==
  /\ served \in BOOLEAN
  /\ ctxKey \in ContextKeys
  /\ client = NewClient(BaseUrl)
  /\ provider = NewProvider(BaseUrl)
  /\ InitServer

NextExt ==
  \/ \E r \in ReqIds : ServeWide(r)
  \/ \E r \in ReqIds : ServeIsNonced(r)
  \/ \E r \in ReqIds : CallBlock(r)
  \/ \E r \in ReqIds : ConsumeLookup(r)
  \/ \E r \in ReqIds : ClearLookup(r)
  \/ \E r \in ReqIds : ClearDelete(r)
  \/ \E r \in ReqIds : GetNonce(r)
  \/ \E r \in ReqIds : HandlerGetNonce(r)
  \/ \E t \in TaskIds : ExpiryClearLookup(t)
  \/ \E t \in TaskIds : ExpiryClearDelete(t)
  \/ Tick
  \/ FatalConcurrentMap

ExtSpec == InitExt /\ [][NextExt]_vars

\* ================================================================ claims
InUse(r) == pc[r] \notin {"idle", "exit"}
Done(r) == pc[r] = "done"
\* The request takes the guarded branch of NoncedHandlerFunc.
IsGuarded(r) == InUse(r) /\ ~Skip(request[r])
IsExempt(r) == InUse(r) /\ Skip(request[r])
StageNames(r) == [i \in DOMAIN obs[r].stages |-> obs[r].stages[i].name]
Called(r, name) == \E i \in DOMAIN obs[r].stages : obs[r].stages[i].name = name
StageResult(r, name) ==
  obs[r].stages[CHOOSE i \in DOMAIN obs[r].stages : obs[r].stages[i].name = name]
\* Consume of request r has looked the presented value up.
LookedUp(r) == IsGuarded(r) /\ obs[r].saw.state # ""
\* Consume of request r is between its lookup and its return.
InConsume(r) == pc[r] \in {"ClearLookup", "ClearDelete"}

\* C1: requests served one after another.  A Consume that presents a value
\* whose issuance no Consume and no expiry has touched finds it, returns nil
\* with no denial status written, and leaves the value out of the store; a
\* Consume that presents a value whose issuance an earlier Consume took is
\* answered 403 with a nil error.
C1_FirstConsumeWinsLaterDenied ==
  \A r \in ReqIds :
    LET v == request[r].nonce
        s == obs[r].saw
    IN LookedUp(r) =>
         /\ s.state = "fresh" => s.found
         /\ (s.state = "fresh" /\ Called(r, "Consume")) =>
              /\ ~StageResult(r, "Consume").err
              /\ StageResult(r, "Consume").status = StatusOK
              /\ (cur[v].state = "used" /\ cur[v].epoch = s.epoch) => v \notin nonceMap
         /\ s.state = "used" =>
              /\ ~s.found
              /\ Called(r, "Consume")
              /\ ~StageResult(r, "Consume").err
              /\ StageResult(r, "Consume").status = StatusForbidden

\* C1 witness: a value was consumed once and presented again.
C1_Witness ==
  \E r \in ReqIds :
    /\ LookedUp(r) /\ obs[r].saw.state = "used"
    /\ Called(r, "Consume")
    /\ StageResult(r, "Consume").status = StatusForbidden

\* C2: of the Consume calls that look the same issuance of a value up, at
\* most one finds it and goes on to succeed; the others are denied.
C2_OneConcurrentConsumeSucceeds ==
  \A r1, r2 \in ReqIds :
    (/\ r1 # r2
     /\ LookedUp(r1) /\ LookedUp(r2)
     /\ request[r1].nonce = request[r2].nonce
     /\ obs[r1].saw.epoch = obs[r2].saw.epoch)
    => ~(obs[r1].saw.found /\ obs[r2].saw.found)

\* C3: requests served one after another.  A guarded request that presents
\* a value whose issuance already let a request through never reaches the
\* protected action and is answered 403.
C3_OneActionPerIssuance ==
  \A r \in ReqIds :
    (LookedUp(r) /\ obs[r].saw.state = "used") =>
      /\ obs[r].invoked = 0
      /\ Done(r)
      /\ obs[r].terminal = "Denied"
      /\ SentStatus(response[r]) = StatusForbidden

\* C3 witness: the reused value is refused after its first use reached the
\* protected action.
C3_Witness ==
  \E r \in ReqIds :
    /\ LookedUp(r) /\ obs[r].saw.state = "used" /\ Done(r)
    /\ SentStatus(response[r]) = StatusForbidden
    /\ started = MaxReq

\* C4: a Consume that presents a value not consumed before, strictly after
\* the TTL of its issuance has elapsed, is denied, and the guarded request is
\* answered 403.
C4_ConsumeAfterTTLDenied ==
  \A r \in ReqIds :
    (LookedUp(r) /\ obs[r].saw.late /\ obs[r].saw.state \in {"fresh", "expired"}) =>
      /\ ~obs[r].saw.found
      /\ Done(r) => SentStatus(response[r]) = StatusForbidden

PipelineStages == <<"Skip", "Provided", "Consume", "GetNonce">>

\* C5: the protected action of a guarded request is invoked only after
\* Provided, Consume and GetNonce each returned a nil error and left the
\* tracked status below 300; a stage that leaves it at 300 or more is the
\* last one called and the action is not invoked.
C5_ActionOnlyAfterCleanStages ==
  \A r \in ReqIds :
    IsGuarded(r) =>
      /\ obs[r].invoked >= 1 =>
           /\ StageNames(r) = PipelineStages
           /\ \A i \in 2..Len(obs[r].stages) :
                ~obs[r].stages[i].err /\ obs[r].stages[i].status < DenyThreshold
      /\ \A i \in 2..Len(obs[r].stages) :
           obs[r].stages[i].status >= DenyThreshold =>
             i = Len(obs[r].stages) /\ obs[r].invoked = 0 /\ Done(r)

\* C5 witness: one guarded request was stopped by a denial status while
\* another reached the protected action.
C5_Witness ==
  \E r1, r2 \in ReqIds :
    /\ IsGuarded(r1) /\ obs[r1].invoked = 1 /\ Done(r1)
    /\ IsGuarded(r2) /\ Called(r2, "Consume")
    /\ StageResult(r2, "Consume").status = StatusForbidden

\* The request presented no nonce, a value the store did not hold, or a
\* value whose TTL had elapsed.
PresentedBadNonce(r) ==
  \/ request[r].nonce = NoNonce
  \/ LookedUp(r) /\ ~obs[r].saw.found
  \/ LookedUp(r) /\ obs[r].saw.late

\* C6: a guarded request with no nonce header, an unknown value or an
\* expired value is answered 403.
C6_BadNonceAnswered403 ==
  \A r \in ReqIds :
    (IsGuarded(r) /\ Done(r) /\ PresentedBadNonce(r)) =>
      SentStatus(response[r]) = StatusForbidden

\* C7: when a stage of a guarded request returns an error, the response
\* status is 500 and the protected action is not invoked.
C7_StageErrorIs500 ==
  \A r \in ReqIds :
    (IsGuarded(r) /\ \E i \in DOMAIN obs[r].stages : obs[r].stages[i].err) =>
      /\ Done(r)
      /\ obs[r].terminal = "ServerError"
      /\ response[r].StatusCode = StatusInternalServerError
      /\ SentStatus(response[r]) = StatusInternalServerError
      /\ obs[r].invoked = 0

\* C7 witness: GetNonce failed after Consume had succeeded.
C7_Witness ==
  \E r \in ReqIds :
    /\ IsGuarded(r) /\ Called(r, "GetNonce")
    /\ StageResult(r, "GetNonce").err
    /\ SentStatus(response[r]) = StatusInternalServerError

\* C8: a request the service exempts reaches the protected action exactly
\* once, with or without a nonce header, and the pipeline calls none of
\* Provided, Consume and GetNonce for it.
C8_ExemptReachesAction ==
  \A r \in ReqIds :
    (InUse(r) /\ Contains(request[r].url, NewNonceWord)) =>
      /\ obs[r].invoked = 1
      /\ obs[r].terminal = "ExemptInvoke"
      /\ StageNames(r) = <<"Skip">>

\* C8 witness: two exempt requests, one with and one without the header.
C8_Witness ==
  \E r1, r2 \in ReqIds :
    /\ Done(r1) /\ Done(r2)
    /\ Contains(request[r1].url, NewNonceWord) /\ request[r1].nonce = NoNonce
    /\ Contains(request[r2].url, NewNonceWord) /\ request[r2].nonce # NoNonce

\* The guarded request passed every stage and reached the protected action.
Succeeded(r) == IsGuarded(r) /\ Done(r) /\ obs[r].terminal = "ActionInvoke"

\* GetNonce, called by the pipeline for request r, returns in this step.
Reissues(r) == pc[r] = "GetNonce" /\ pc'[r] = "done" /\ obs'[r].terminal = "ActionInvoke"

HandlerIssues(r) == pc[r] = "HandlerGetNonce" /\ pc'[r] = "done"

C11_ClearIdempotent ==
  /\ [](\A v \in NonceValues :
          LET once == Clear(nonceMap, v)
              twice == Clear(once.m, v)
          IN /\ ~once.err /\ ~twice.err
             /\ v \notin nonceMap => once.m = nonceMap
             /\ twice.m = once.m)
  /\ [][\A t \in TaskIds :
          (/\ ~crashed'
           /\ tasks[t].pc = "select" /\ tasks'[t].pc # "select"
           /\ tasks[t].nonce \notin nonceMap)
          => nonceMap' = nonceMap /\ tasks'[t].pc = "sendDone"]_vars
  /\ [][\A r \in ReqIds :
          (/\ ~crashed'
           /\ pc[r] = "ClearLookup" /\ pc'[r] # "ClearLookup"
           /\ request[r].nonce \notin nonceMap)
          => /\ nonceMap' = nonceMap
             /\ pc'[r] = "GetNonce"
             /\ ~obs'[r].stages[Len(obs'[r].stages)].err]_vars

\* C11 witness: the expiry goroutine called Clear for a value that a Consume
\* had already removed.
C11_Witness ==
  \E t \in TaskIds :
    /\ tasks[t].pc = "sendDone" /\ tasks[t].fired = 1
    /\ tasks[t].met.state = "used" /\ ~tasks[t].met.found
    /\ tasks[t].nonce \notin nonceMap

\* A guarded request that carries no nonce header.
BareRequest == [method |-> "GET", url |-> DoSomethingPath, nonce |-> NoNonce]

\* C12: Provided with no nonce header, and Consume with no nonce header or
\* with a value the store does not hold, return a nil error and write 403.
C12_DenialsReturnNil ==
  /\ \A r \in ReqIds :
       IsGuarded(r) =>
         /\ (request[r].nonce = NoNonce /\ Called(r, "Provided")) =>
              /\ ~StageResult(r, "Provided").err
              /\ StageResult(r, "Provided").status = StatusForbidden
         /\ (LookedUp(r) /\ ~obs[r].saw.found /\ Called(r, "Consume")) =>
              /\ ~StageResult(r, "Consume").err
              /\ StageResult(r, "Consume").status = StatusForbidden
              /\ obs[r].terminal = "Denied"
  /\ ~ConsumeFinds(nonceMap, BareRequest)
  /\ ~ConsumeDenies(Wrapped).err
  /\ ConsumeDenies(Wrapped).resp.StatusCode = StatusForbidden
  /\ ~Provided(Wrapped, BareRequest).err

\* C12 witness: one request was denied by Provided for its missing header,
\* another by Consume for a value the store did not hold.
C12_Witness ==
  \E r1, r2 \in ReqIds :
    /\ Done(r1) /\ IsGuarded(r1) /\ request[r1].nonce = NoNonce
    /\ obs[r1].terminal = "Denied"
    /\ Done(r2) /\ LookedUp(r2) /\ ~obs[r2].saw.found
    /\ obs[r2].terminal = "Denied"

\* C13: no two goroutines are at the store's map at the same time with one
\* of them writing, and the process is never stopped for such an access.
C13_MapAccessExclusive == ~MapRace /\ ~crashed

\* C14: for one value, the delete of a Consume and the delete of the expiry
\* goroutine are never both pending, and a Consume that looks the value up
\* after its expiry goroutine fired does not find it.
C14_ConsumeAndExpiryRaceSafely ==
  /\ \A r \in ReqIds, t \in TaskIds :
       ~(/\ pc[r] = "ClearDelete" /\ tasks[t].pc = "ClearDelete"
         /\ tasks[t].nonce = request[r].nonce)
  /\ \A r \in ReqIds :
       (LookedUp(r) /\ obs[r].saw.state = "expired") => ~obs[r].saw.found

\* The issuance that started goroutine t was consumed and is out of the store.
Consumed(t) ==
  /\ cur[tasks[t].nonce].epoch = TaskEpoch(t)
  /\ cur[tasks[t].nonce].state = "used"
  /\ tasks[t].nonce \notin nonceMap

\* C15: no expiry goroutine is left waiting on its ticker once its nonce was
\* consumed, and none is left blocked after its Clear: each one can return.
C15_ExpiryTasksTerminate ==
  \A t \in TaskIds :
    /\ tasks[t].pc # "sendDone"
    /\ Consumed(t) => tasks[t].pc # "select"

\* C16: an expiry goroutine calls Clear at most once, and never once its
\* nonce has been consumed.
C16_ExpiryFiresOnceNotAfterCancel ==
  \A t \in TaskIds :
    /\ tasks[t].fired <= 1
    /\ ~(tasks[t].met.state = "used" /\ ~tasks[t].met.found)

\* C17: requests served one after another.  A Consume that presents a value
\* consumed, cleared or expired earlier does what it does for a value never
\* issued: the lookup fails and the answer is 403 with a nil error.
C17_InvalidatedLikeNeverIssued ==
  \A r \in ReqIds :
    (/\ LookedUp(r)
     /\ \/ obs[r].saw.state \in {"used", "expired", "swept"}
        \/ obs[r].saw.late)
    => /\ ~obs[r].saw.found
       /\ Called(r, "Consume") =>
            /\ ~StageResult(r, "Consume").err
            /\ StageResult(r, "Consume").status = StatusForbidden

\* GetNonce returns to request r in this step, with a value.
IssuesIn(r) ==
  /\ pc[r] \in {"GetNonce", "HandlerGetNonce"}
  /\ pc'[r] = "done"
  /\ obs'[r].issued # NoNonce

\* C18 as stated: no issuance returns a value that the store held when it
\* was issued.
C18_IssuedValueNotLive ==
  \A v \in NonceValues : ~cur[v].over

\* C18 amended: GetNonce does not look the minted value up.  A value the
\* store does not hold becomes a new entry; a value it holds (the generator
\* repeated a live one) keeps its single entry, now shared by both
\* issuances, and one more expiry goroutine is started for it.
C18_IssuedValueLiveOnce ==
  [][\A r \in ReqIds :
       IssuesIn(r) =>
         LET v == obs'[r].issued
         IN /\ v \in nonceMap'
            /\ nonceMap' = nonceMap \cup {v}
            /\ cur'[v].over = (v \in nonceMap)
            /\ Len(tasks') = Len(tasks) + 1
            /\ tasks'[Len(tasks')].nonce = v
            /\ tasks'[Len(tasks')].pc = "select"]_vars

\* C18 witness: a value was issued again while it was live; both expiry
\* goroutines wait for their tickers.
C18_Witness ==
  \E v \in NonceValues, t1, t2 \in TaskIds :
    /\ cur[v].over /\ v \in nonceMap
    /\ t1 < t2
    /\ tasks[t1].nonce = v /\ tasks[t1].pc = "select"
    /\ tasks[t2].nonce = v /\ tasks[t2].pc = "select"

\* Lower-case letters, upper-case letters and digits.
Alphanumeric ==
  {"a","b","c","d","e","f","g","h","i","j","k","l","m",
   "n","o","p","q","r","s","t","u","v","w","x","y","z",
   "A","B","C","D","E","F","G","H","I","J","K","L","M",
   "N","O","P","Q","R","S","T","U","V","W","X","Y","Z",
   "0","1","2","3","4","5","6","7","8","9"}

WellFormedNonce(v) ==
  Len(v) = NonceLen /\ \A i \in 1..Len(v) : v[i] \in Alphanumeric

\* C19: every value GetNonce returned, every value in the store and every
\* nonce header sent has 32 characters, all of them letters or digits.
C19_NonceLengthAndAlphabet ==
  /\ \A v \in nonceMap : WellFormedNonce(v)
  /\ \A r \in ReqIds :
       /\ obs[r].issued # NoNonce => WellFormedNonce(obs[r].issued)
       /\ response[r].nonce # NoNonce => WellFormedNonce(response[r].nonce)

\* C19 witness: values with lower-case letters, upper-case letters and
\* digits were issued.
C19_Witness ==
  \E r1, r2 \in ReqIds :
    /\ obs[r1].issued # NoNonce /\ obs[r2].issued # NoNonce
    /\ \E i \in 1..NonceLen : obs[r1].issued[i] = "a"
    /\ \E i \in 1..NonceLen : obs[r2].issued[i] = "9"
    /\ \E i \in 1..NonceLen : obs[r2].issued[i] = "Z"

\* C20 as stated: the value GetNonce returns is in the store when it
\* returns, and a Consume that presents it before the TTL of its issuance
\* elapses, no Consume having taken it, finds it and succeeds.
C20_IssuedValueConsumable ==
  /\ [][\A r \in ReqIds : IssuesIn(r) => obs'[r].issued \in nonceMap']_vars
  /\ [](\A r \in ReqIds :
          (/\ LookedUp(r) /\ obs[r].saw.early
           /\ obs[r].saw.state \in {"fresh", "expired", "swept"}) =>
            /\ obs[r].saw.found
            /\ Done(r) => Succeeded(r))

\* C20 amended: the value GetNonce returns is in the store when it returns;
\* a Consume that presents it before the TTL of its issuance elapses, while
\* no Consume and no expiry goroutine has taken it, finds it and succeeds;
\* the expiry goroutine of the issuance itself never takes it before the
\* TTL elapses, the one of an earlier issuance of the same value may.
C20_IssuedValueConsumableUntilTaken ==
  /\ [][\A r \in ReqIds : IssuesIn(r) => obs'[r].issued \in nonceMap']_vars
  /\ [](\A r \in ReqIds :
          (LookedUp(r) /\ obs[r].saw.early /\ obs[r].saw.state = "fresh") =>
            /\ obs[r].saw.found
            /\ Done(r) => Succeeded(r))
  /\ [](\A r \in ReqIds :
          (LookedUp(r) /\ obs[r].saw.state = "expired") => ~obs[r].saw.early)

\* C20 witness: a request presented a value before its TTL elapsed and
\* reached the protected action; another presented an expired one.
C20_Witness ==
  \E r1, r2 \in ReqIds :
    /\ Succeeded(r1) /\ obs[r1].saw.state = "fresh"
    /\ obs[r1].saw.early /\ obs[r1].saw.found
    /\ LookedUp(r2) /\ obs[r2].saw.state = "expired"

\* ------------------------------------------------------------ C21 .. C30
\* The peasant's call of NewNonceUrl, of NewNonce, returns in this step.
NewNonceUrlReturns ==
  client'.calls = client.calls + 1 /\ client'.last.op = "NewNonceUrl"
NewNonceReturns ==
  client'.calls = client.calls + 1 /\ client'.last.op = "NewNonce"

\* C22: for every base URL b the memory provider's directory is, with a nil
\* error, the mapping of newNonce to b followed by /nonce/new-nonce, and
\* NewNonceUrl with the default DirectoryKey returns that URL.
C22_MemoryDirectory ==
  /\ [](\A b \in BaseUrls :
          Directory(MemoryDirectoryProvider(b)) =
            [dir |-> ("newNonce" :> (b \o NonceNewNoncePath)), err |-> NilErr])
  /\ [][(NewNonceUrlReturns /\ client.ht.DirectoryKey = "newNonce") =>
          /\ client'.last.err = NilErr
          /\ client'.last.value =
               client.ht.DirectoryProvider.url \o NonceNewNoncePath]_vars

\* C22 witness: NewNonceUrl returned the nonce URL of the second base URL.
C22_Witness ==
  /\ client.last.op = "NewNonceUrl" /\ client.last.err = NilErr
  /\ client.last.value = BaseUrl \o <<":","8","0">> \o NonceNewNoncePath

\* C23: when the directory lacks the transport's DirectoryKey, NewNonceUrl
\* returns an empty URL and the key-not-found error, and NewNonce returns
\* that error without issuing a request.
C23_MissingKeyIsError ==
  /\ [][(/\ NewNonceUrlReturns
         /\ client.ht.DirectoryKey \notin
              DOMAIN Directory(client.ht.DirectoryProvider).dir) =>
          /\ client'.last.value = <<>>
          /\ client'.last.err # NilErr
          /\ client'.last.err = KeyNotFound(client.ht.DirectoryKey)]_vars
  /\ [][(/\ NewNonceReturns
         /\ client.ht.DirectoryKey \notin
              DOMAIN Directory(client.ht.DirectoryProvider).dir) =>
          /\ client'.last.value = <<>>
          /\ client'.last.err = KeyNotFound(client.ht.DirectoryKey)
          /\ client'.last.req = NoCallRequest
          /\ client'.sent = client.sent]_vars

\* C23 witness: NewNonce failed on the missing key, no request sent so far.
C23_Witness ==
  /\ client.last.op = "NewNonce"
  /\ client.last.err = KeyNotFound("BadDirectoryKey")
  /\ client.sent = 0

\* C24: NewNonce, given a response, returns an empty value and the status
\* text as error when the status is not 2xx, and a nil error only for 2xx.
C24_NonSuccessIsError ==
  (/\ client.last.op = "NewNonce"
   /\ client.last.req # NoCallRequest
   /\ ~client.last.answer.err) =>
    IF client.last.answer.StatusCode \in 200..299
    THEN client.last.err = NilErr
    ELSE /\ client.last.value = <<>>
         /\ client.last.err = <<client.last.answer.Status>>

\* The response is the bastion's: 2xx, the nonce under the key nonce.
BastionAnswered(answer) ==
  /\ ~answer.err
  /\ answer.StatusCode \in 200..299
  /\ HeaderGet(answer.Header, NonceHeaderKey) # <<>>

\* C25: given the bastion's response, NewNonce returns a non-empty value
\* and no error when NonceKey names the header carrying the nonce, and an
\* empty value with an error when it names another header.
C25_NonceKeyDecides ==
  [][(/\ NewNonceReturns
      /\ client'.last.req # NoCallRequest
      /\ BastionAnswered(client'.last.answer)) =>
       IF CanonicalMIMEHeaderKey(client.ht.NonceKey) =
            CanonicalMIMEHeaderKey(NonceHeaderKey)
       THEN client'.last.value # <<>> /\ client'.last.err = NilErr
       ELSE client'.last.value = <<>> /\ client'.last.err # NilErr]_vars

\* C26: every NewNonce call resolves the directory once more, issues one
\* request with the configured method to the URL the directory gives,
\* returns the value found in the response to that request, and changes no
\* field of the transport.
C26_NewNonceIsFreshRoundTrip ==
  [][NewNonceReturns =>
       /\ client'.ht = client.ht
       /\ client'.dirCalls = client.dirCalls + 1
       /\ (/\ client.ht.DirectoryKey = "newNonce"
           /\ client.ht.DirectoryMethod \in ValidMethods) =>
            /\ client'.sent = client.sent + 1
            /\ client'.last.req =
                 [method |-> client.ht.DirectoryMethod,
                  url |-> client.ht.DirectoryProvider.url \o NonceNewNoncePath]
       /\ client'.sent <= client.sent + 1
       /\ (client'.last.err = NilErr) =>
            /\ client'.last.req # NoCallRequest
            /\ client'.last.value =
                 HeaderGet(client'.last.answer.Header, client.ht.NonceKey)]_vars

\* C26 witness: the third call returned a nonce; each call resolved the
\* directory and sent a request.
C26_Witness ==
  /\ client.last.op = "NewNonce" /\ client.last.err = NilErr
  /\ client.last.value \in NonceValues
  /\ client.calls = MaxCalls /\ client.dirCalls = MaxCalls
  /\ client.sent = MaxCalls

\* The terminal states of NoncedHandlerFunc.
Terminals == {"ExemptInvoke", "Denied", "ServerError", "ActionInvoke"}

\* C28: a request handled by NoncedHandlerFunc ends in one terminal state
\* among ExemptInvoke, Denied, ServerError and ActionInvoke; its stages are
\* called in the order Skip, Provided, Consume, GetNonce, each at most once;
\* no stage follows one that denied or failed; the protected action is
\* invoked at most once.
C28_OneTerminalInOrder ==
  \A r \in ReqIds :
    InUse(r) =>
      LET o == obs[r]
          n == Len(o.stages)
      IN /\ Done(r) => o.terminal \in Terminals
         /\ o.terminal \in Terminals \cup {""}
         /\ (~Done(r) /\ pc[r] # "HandlerGetNonce") => o.terminal = ""
         /\ n <= Len(PipelineStages)
         /\ StageNames(r) = SubSeq(PipelineStages, 1, n)
         /\ \A i \in 1..(n - 1) :
              ~o.stages[i].err /\ o.stages[i].status < DenyThreshold
         /\ o.invoked <= 1
         /\ o.terminal = "ExemptInvoke" => n = 1 /\ o.invoked = 1
         /\ o.terminal = "ActionInvoke" =>
              /\ n = 4 /\ o.invoked = 1
              /\ ~o.stages[n].err /\ o.stages[n].status < DenyThreshold
         /\ o.terminal = "Denied" =>
              /\ o.invoked = 0 /\ n \in 2..3
              /\ ~o.stages[n].err /\ o.stages[n].status >= DenyThreshold
         /\ o.terminal = "ServerError" =>
              o.invoked = 0 /\ n >= 2 /\ o.stages[n].err

\* C28 witness: the four terminal states were reached, two at a time.
C28_Witness ==
  \E r1, r2 \in ReqIds :
    /\ Done(r1) /\ Done(r2)
    /\ obs[r1].terminal = "ServerError" /\ Called(r1, "GetNonce")
    /\ obs[r2].terminal = "ActionInvoke"

\* C21: Skip decides from the path alone: a request whose path is a guarded
\* endpoint is never exempted, whatever its query holds, and two requests
\* with the same path get the same Skip result.
C21_SkipByPathAlone ==
  /\ \A r \in ReqIds :
       (InUse(r) /\ Path(request[r].url) = DoSomethingPath) =>
         /\ ~Skip(request[r])
         /\ obs[r].terminal # "ExemptInvoke"
  /\ \A r \in ReqIds : \A req \in Requests :
       (InUse(r) /\ Path(req.url) = Path(request[r].url)) =>
         Skip(req) = Skip(request[r])

\* The key under which NonceServed(s, key) stores the service.
EffectiveKey == IF ctxKey = "" THEN "nonce-service" ELSE ctxKey

C29_PipelinesEquivalent ==
  [][\A r \in ReqIds : \A req \in Requests :
       Receive(r, req) <=> ReceiveIsNonced(r, req)]_vars

\* C29 witness: after an earlier exchange, a guarded request handled by the
\* IsNonced/IsProvided pipeline reached the protected action.
C29_Witness ==
  \E r \in ReqIds :
    /\ Done(r) /\ started >= 2
    /\ request[r].pipeline = "IsNonced"
    /\ obs[r].terminal = "ActionInvoke"
    /\ response[r].nonce \in NonceValues

\* A call of Block for the exchange of r returns in this step.
BlockReturns(r) == obs'[r].blocks = obs[r].blocks + 1

\* C30: Block returns a nil error, writes no status and no header, and
\* leaves the nonce store as it is.
C30_BlockIsNoOp ==
  [][\A r \in ReqIds :
       BlockReturns(r) =>
         /\ ~Block(response[r], request[r]).err
         /\ response' = response
         /\ nonceMap' = nonceMap
         /\ tasks' = tasks]_vars

\* C30 witness: Block was called for an exchange that had sent no status,
\* while the store held a value.
C30_Witness ==
  \E r \in ReqIds :
    /\ obs[r].blocks = 1
    /\ response[r].status = 0
    /\ nonceMap # {}

\* ------------------------------------------------------------ C31 .. C40
\* The guarded request r was stopped by a denial status of Provided or Consume.
StoppedByDenial(r) ==
  /\ IsGuarded(r)
  /\ \E i \in DOMAIN obs[r].stages :
       /\ obs[r].stages[i].name \in {"Provided", "Consume"}
       /\ ~obs[r].stages[i].err
       /\ obs[r].stages[i].status >= DenyThreshold

\* A step of the pipeline of r up to the end of Consume's lookup.
ChecksNonce(r) ==
  /\ ~crashed'
  /\ \/ started' # started /\ pc'[r] # "idle" /\ request'[r] # NoRequest
        /\ Len(obs'[r].stages) >= 1 /\ pc[r] \in {"idle", "done"}
     \/ pc[r] = "Consume" /\ pc'[r] # "Consume"

\* C32: a guarded request that is denied leaves the store as it was: its
\* steps remove and add nothing, GetNonce is not called for it, and its
\* response carries no nonce header.
C32_DeniedLeavesStore ==
  /\ [](\A r \in ReqIds :
          StoppedByDenial(r) =>
            /\ Done(r)
            /\ obs[r].terminal = "Denied"
            /\ ~Called(r, "GetNonce")
            /\ obs[r].issued = NoNonce
            /\ response[r].nonce = NoNonce
            /\ SentStatus(response[r]) = StatusForbidden)
  /\ [][\A r \in ReqIds :
          (ChecksNonce(r) /\ obs'[r].terminal = "Denied") =>
            /\ nonceMap' = nonceMap
            /\ tasks' = tasks]_vars

\* C32 witness: a value was live when one request was denied for presenting
\* none and another for presenting a value the store did not hold.
C32_Witness ==
  \E r1, r2 \in ReqIds :
    /\ StoppedByDenial(r1) /\ request[r1].nonce = NoNonce
    /\ StoppedByDenial(r2) /\ LookedUp(r2) /\ ~obs[r2].saw.found
    /\ nonceMap # {}

\* NoncedHandlerFunc calls f(wrapped, r) for the guarded request r in this step.
InvokesAction(r) ==
  /\ ~crashed'
  /\ pc[r] = "GetNonce"
  /\ obs'[r].terminal = "ActionInvoke"

\* C33: when the protected action is invoked for a guarded request, the
\* presented value is out of the store, and it is still out of it once the
\* action has answered, whatever the answer.
C33_ConsumedBeforeAction ==
  [][\A r \in ReqIds :
       InvokesAction(r) =>
         /\ request[r].nonce \notin nonceMap
         /\ request[r].nonce \notin nonceMap']_vars

\* C33, with values that can be generated twice: when the protected action
\* is invoked the issuance that was presented has been removed, and an
\* entry under the same value belongs to a later issuance.
C33_PresentedIssuanceConsumed ==
  [][\A r \in ReqIds :
       InvokesAction(r) =>
         LET v == request[r].nonce
         IN /\ Called(r, "Consume")
            /\ ~StageResult(r, "Consume").err
            /\ v \notin nonceMap \/ cur[v].epoch > obs[r].saw.epoch
            /\ v \notin nonceMap' \/ cur'[v].epoch > obs[r].saw.epoch]_vars

\* C33 witness: the action rejected the method with 405 after the presented
\* value had been found and removed.
C33_Witness ==
  \E r \in ReqIds :
    /\ Succeeded(r)
    /\ SentStatus(response[r]) = StatusMethodNotAllowed
    /\ obs[r].saw.found
    /\ request[r].nonce \notin nonceMap
    /\ obs[r].issued # request[r].nonce

\* The guarded request r is answered 500 in this step.
EndsInServerError(r) ==
  /\ ~crashed'
  /\ pc[r] \notin {"idle", "done"}
  /\ pc'[r] = "done"
  /\ obs'[r].terminal = "ServerError"

\* C34: a guarded request that ends with 500 leaves the store as it was
\* before the request: the value it presented and Consume found is in the
\* store when the 500 is sent, also when GetNonce failed after Consume.
C34_ServerErrorKeepsStore ==
  [][\A r \in ReqIds :
       EndsInServerError(r) =>
         /\ nonceMap' = nonceMap
         /\ obs'[r].saw.found => request[r].nonce \in nonceMap']_vars

\* The values this step takes out of the store.
Removed == nonceMap \ nonceMap'

\* The request r, the goroutine t, executes the delete of Clear in this step.
RequestDeletes(r) == pc[r] = "ClearDelete" /\ pc'[r] # "ClearDelete"
TaskDeletes(t) == tasks[t].pc = "ClearDelete" /\ tasks'[t].pc = "sendDone"

\* C35: Consume, Clear and the expiry of a value remove that value only:
\* every other value the store held is still in it, with the same
\* issuance, and so can still be consumed.
C35_NoncesIndependent ==
  [][~crashed' =>
       /\ \A r \in ReqIds :
            RequestDeletes(r) =>
              /\ Removed \subseteq {request[r].nonce}
              /\ \A b \in nonceMap \ {request[r].nonce} :
                   b \in nonceMap' /\ cur'[b] = cur[b]
       /\ \A t \in TaskIds :
            TaskDeletes(t) =>
              /\ Removed \subseteq {tasks[t].nonce}
              /\ \A b \in nonceMap \ {tasks[t].nonce} :
                   b \in nonceMap' /\ cur'[b] = cur[b]
       /\ Cardinality(Removed) <= 1]_vars

\* C35 witness: the expiry of one value removed it while a value issued
\* before it stayed live.
C35_Witness ==
  \E t, u \in TaskIds :
    /\ u < t
    /\ tasks[t].pc = "sendDone" /\ tasks[t].met.found
    /\ tasks[t].met.state = "fresh"
    /\ tasks[t].nonce \notin nonceMap
    /\ tasks[u].nonce # tasks[t].nonce
    /\ tasks[u].nonce \in nonceMap
    /\ cur[tasks[u].nonce].state = "fresh" /\ cur[tasks[u].nonce].epoch = 1

\* The removal of the value v from the store is under way: Consume found it
\* and is in its Clear, or an expiry goroutine is about to delete it.
BeingRemoved(v) ==
  \/ \E r \in ReqIds : InConsume(r) /\ request[r].nonce = v
  \/ \E t \in TaskIds : tasks[t].pc = "ClearDelete" /\ tasks[t].nonce = v

\* GetNonce returns in this step, to the pipeline or to the /new-nonce handler.
GetNonceReturns(r) ==
  /\ pc[r] \in {"GetNonce", "HandlerGetNonce"}
  /\ pc'[r] = "done"
  /\ obs'[r].issued \in NonceValues

\* C36: the store holds only values GetNonce returned and that no Consume
\* or Clear has taken and whose TTL has not run out since; only GetNonce
\* adds an entry.
C36_StoreHoldsIssuedOnly ==
  /\ [](\A v \in nonceMap :
          /\ v \in NonceValues
          /\ cur[v].epoch >= 1
          /\ \E t \in TaskIds : tasks[t].nonce = v
          /\ cur[v].state = "fresh" \/ BeingRemoved(v)
          /\ cur[v].state = "fresh" => now <= cur[v].deadline)
  /\ [][\A v \in nonceMap' \ nonceMap :
          \E r \in ReqIds : GetNonceReturns(r) /\ obs'[r].issued = v]_vars

\* C37: every value GetNonce returned is eventually out of the store,
\* removed by a Consume or by the fire of its ticker; no value that is never
\* presented stays live for ever.
C37_IssuedEventuallyAbsent ==
  \A v \in NonceValues : (v \in nonceMap) ~> (v \notin nonceMap)

\* C37 witness: a value that no request presented was removed by the fire
\* of its own ticker.
C37_Witness ==
  \E t \in TaskIds :
    /\ tasks[t].pc = "sendDone"
    /\ tasks[t].met.found /\ tasks[t].met.state = "fresh"
    /\ tasks[t].nonce \notin nonceMap
    /\ now >= tasks[t].deadline

\* No value has been issued twice.
ValuesDistinct == \A v \in NonceValues : cur[v].epoch <= 1

\* C38: while the issued values are pairwise distinct, a value leaves the
\* store only through the Clear of a Consume that names it or through its
\* own expiry goroutine, and through that not before the TTL of its
\* issuance has elapsed; no goroutine removes the value of another issuance.
C38_NoEarlyRemoval ==
  /\ [](ValuesDistinct =>
          /\ \A v \in NonceValues :
               /\ cur[v].state # "swept"
               /\ cur[v].state = "expired" => now >= cur[v].deadline
          /\ \A t \in TaskIds :
               /\ TaskEpoch(t) = 1
               /\ tasks[t].met.state # "later"
               /\ tasks[t].fired >= 1 => now >= tasks[t].deadline)
  /\ [][(~crashed' /\ ValuesDistinct) =>
          \A v \in Removed :
            \/ \E r \in ReqIds : RequestDeletes(r) /\ request[r].nonce = v
            \/ \E t \in TaskIds :
                 /\ TaskDeletes(t) /\ tasks[t].nonce = v
                 /\ tasks[t].deadline = cur[v].deadline
                 /\ now >= cur[v].deadline]_vars

\* C38 witness: two distinct values were issued; one was removed by its own
\* goroutine once its TTL had elapsed, the other is live within its TTL.
C38_Witness ==
  \E t, u \in TaskIds :
    /\ ValuesDistinct
    /\ tasks[t].nonce # tasks[u].nonce
    /\ tasks[t].pc = "sendDone" /\ tasks[t].met.found
    /\ cur[tasks[t].nonce].state = "expired"
    /\ tasks[u].nonce \in nonceMap /\ now < tasks[u].deadline

\* A call on the provider returns in this step.
ProviderCallReturns(op) ==
  provider'.calls = provider.calls + 1 /\ provider'.last.op = op

\* C31: NewHttpTransport returns an error and a nil transport when the
\* provider's SetTransport fails, and the new transport with a nil error
\* otherwise; SetTransport of the HttpDirectoryProvider fails exactly when
\* the Transport given is not an *HttpTransport; SetTransport of the
\* MemoryDirectoryProvider never fails.
C31_SetTransportErrors ==
  /\ [](\A t \in Transports : \A b \in BaseUrls :
          SetTransportMemory(MemoryDirectoryProvider(b), t).err = NilErr)
  /\ [][/\ ProviderCallReturns("NewHttpTransport") =>
             LET l == provider'.last
                 s == SetTransport(l.kind, provider.http, l.arg)
             IN /\ (s.err # NilErr) <=> (l.err # NilErr)
                /\ l.err # NilErr => l.ht = NilTransport /\ l.err = s.err
                /\ l.err = NilErr => l.ht = l.arg /\ l.ht.type = "*HttpTransport"
                /\ l.kind \in {"memory", "http"} => l.err = NilErr
                /\ l.kind = "http" => provider'.http.HttpTransport = l.ht
        /\ ProviderCallReturns("SetTransport") =>
             LET l == provider'.last
             IN /\ (l.err # NilErr) <=> (l.arg.type # "*HttpTransport")
                /\ l.err = NilErr => provider'.http.HttpTransport = l.arg]_vars

\* C31 witness: NewHttpTransport failed on a provider that refuses the
\* transport, after SetTransport of the remote provider had failed for a
\* Transport of another type and succeeded for an *HttpTransport.
C31_Witness ==
  /\ provider.calls = MaxCalls
  /\ provider.last.op = "NewHttpTransport"
  /\ provider.last.kind = "refusing"
  /\ provider.last.err # NilErr /\ provider.last.ht = NilTransport
  /\ provider.http.HttpTransport.type = "*HttpTransport"

\* C39: NewNonceUrl returns a URL or a non-nil error for every directory
\* its provider can return, also one decoded from a remote body, and never
\* panics.
C39_NewNonceUrlTotal ==
  (provider.last.op = "NewNonceUrl" /\ provider.http.HttpTransport # NilTransport) =>
    /\ ~provider.last.panic
    /\ provider.last.err # NilErr \/ provider.last.url # <<>>

\* C40: a SetTransport that fails leaves the provider as it was: the
\* transport configured before is still in place.
C40_FailedSetTransportKeepsState ==
  [][(ProviderCallReturns("SetTransport") /\ provider'.last.err # NilErr) =>
       provider'.http = provider.http]_vars

====
